---- MODULE Spec2Model ----
(***************************************************************************)
(* Model of the Solr neural-search scripts:                                *)
(*   scripts/document_indexing.py    index mode    (index_documents)       *)
(*   scripts/vector_generation.py    generate mode (batch_encode_to_vectors)*)
(*   scripts/neural_search_tester.py query operations (NeuralSearchTester) *)
(*                                                                         *)
(* Strings are sequences of one-character strings, so that strip, split,   *)
(* join, str and float are computed character by character as Python does.*)
(* A float is the record [whole, frac] of its decimal literal (frac without*)
(* trailing zeros); the literals of the model are unsigned decimals.       *)
(***************************************************************************)
EXTENDS Integers, Sequences, FiniteSets, TLC

\* ------------------------------------------------------------------ bounds
\* Longest document file / vector file of an index or generate run.
MaxDocs == 4
\* Largest BATCH_SIZE tried (the scripts fix 100; every value in 1..MaxBatch is run).
MaxBatch == 2
\* Length of the vectors the embedder of a run produces (384 for all-MiniLM-L6-v2).
Dimension == 2
\* Largest top_k of a query operation (the default is 3).
MaxTopK == 3
\* Longest filter_ids list of a filtered KNN query.
MaxIds == 2

\* ------------------------------------------------------- Python str helpers
NL == "\n"
SP == " "
Whitespace == {SP, NL}
DigitChars == <<"0", "1", "2", "3", "4", "5", "6", "7", "8", "9">>
DigitSet == {DigitChars[k] : k \in 1..10}

Min(a, b) == IF a <= b THEN a ELSE b

\* str(int) for a non-negative int.
RECURSIVE Str(_)
Str(n) == IF n < 10 THEN <<DigitChars[n + 1]>>
          ELSE Str(n \div 10) \o <<DigitChars[(n % 10) + 1]>>

\* s.lstrip(), s.rstrip(), s.strip() with the default whitespace.
RECURSIVE LStrip(_)
LStrip(s) == IF s # <<>> /\ Head(s) \in Whitespace THEN LStrip(Tail(s)) ELSE s

RECURSIVE RStrip(_)
RStrip(s) == IF s # <<>> /\ s[Len(s)] \in Whitespace
             THEN RStrip(SubSeq(s, 1, Len(s) - 1)) ELSE s

Strip(s) == RStrip(LStrip(s))

\* s.split(sep) with an explicit one-character separator: "" gives [""].
RECURSIVE Split(_, _)
Split(s, sep) ==
    IF \E k \in 1..Len(s) : s[k] = sep
    THEN LET k == CHOOSE j \in 1..Len(s) : s[j] = sep /\ \A i \in 1..(j - 1) : s[i] # sep
         IN  <<SubSeq(s, 1, k - 1)>> \o Split(SubSeq(s, k + 1, Len(s)), sep)
    ELSE <<s>>

\* sep.join(parts), sep a string.
RECURSIVE Join(_, _)
Join(sep, parts) ==
    IF parts = <<>> THEN <<>>
    ELSE IF Len(parts) = 1 THEN parts[1]
    ELSE parts[1] \o sep \o Join(sep, Tail(parts))

AllDigits(s) == \A k \in 1..Len(s) : s[k] \in DigitSet

DigitValue(c) == (CHOOSE k \in 1..10 : DigitChars[k] = c) - 1

RECURSIVE IntValue(_)
IntValue(s) == IF s = <<>> THEN 0
               ELSE 10 * IntValue(SubSeq(s, 1, Len(s) - 1)) + DigitValue(s[Len(s)])

RECURSIVE TrimZeros(_)
TrimZeros(s) == IF s # <<>> /\ s[Len(s)] = "0"
                THEN TrimZeros(SubSeq(s, 1, Len(s) - 1)) ELSE s

\* float(tok) succeeds: surrounding whitespace is ignored, then an unsigned
\* decimal literal "d+", "d+.d*" or "d*.d+" is required; anything else
\* (a letter, an empty token) raises ValueError.
FloatParses(tok) ==
    LET parts == Split(Strip(tok), ".")
    IN  /\ Len(parts) \in {1, 2}
        /\ \A k \in 1..Len(parts) : AllDigits(parts[k])
        /\ \E k \in 1..Len(parts) : parts[k] # <<>>

\* float(tok), where it succeeds.
Float(tok) ==
    LET parts == Split(Strip(tok), ".")
    IN  [whole |-> IntValue(parts[1]),
         frac  |-> IF Len(parts) = 2 THEN TrimZeros(parts[2]) ELSE <<>>]

\* str(float) of a float of the model: "1.0", "2.5".
StrFloat(f) == Str(f.whole) \o <<".">> \o (IF f.frac = <<>> THEN <<"0">> ELSE f.frac)

\* -------------------------------------------------------------- index mode
\* The lines a vector file is made of: a 2-component line, a 1-component
\* line, a line with a non-numeric token, an empty line.
VectorLines ==
    { <<"1", ".", "0", ",", "2", ".", "5", NL>>,
      <<SP, "3", NL>>,
      <<"x", ",", "2", ".", "0", NL>>,
      <<NL>> }

\* The document file is a prefix of this stream of lines.
DocumentStream ==
    [k \in 1..(MaxDocs + 1) |->
        IF k % 2 = 1 THEN <<"a", Str(k)[1], NL>> ELSE <<SP, "b", SP, Str(k)[1], SP, NL>>]

SeqsUpTo(S, n) == UNION {[1..k -> S] : k \in 0..n}

\* What solr.add can do: acknowledge, or raise. pysolr raises SolrError; an
\* exception that is a ValueError (requests' InvalidURL, a JSON error) is the
\* other class the handler of line 54 tells apart.
AddOutcomes == {"ok", "ValueError", "SolrError"}

VARIABLES
    documents_file,   \* the lines of the document file (index and generate mode)
    BATCH_SIZE,       \* the batch size of the run (index and generate mode)
    vectors_file,     \* index mode: the lines of the vector file
    index,            \* index mode: the next ordinal of enumerate(zip(...))
    documents,        \* index mode: the batch buffer
    addCalls,         \* index mode: every solr.add call, [docs, outcome], in call order
    diagnostics,      \* index mode: ordinals printed by "Error processing document"
    created,          \* index mode: every entry appended at line 45, in order
    pc,               \* index mode: "loop", "done", "aborted" ("off" in other modes)
    gen_pc,           \* generate mode: "loop" or "done" ("off" in other modes)
    processed,        \* generate mode: batches processed so far
    consumed,         \* generate mode: lines of documents_file read so far
    encodeCalls,      \* generate mode: every batch passed to model.encode, in order
    out,              \* generate mode: the characters written to the output file
    q_op,             \* query: the operation last run ("none" before the first)
    q_args,           \* query: its arguments [query, top_k, filter_ids]
    q_request,        \* query: the request it built [method, endpoint, data]
    q_reply,          \* query: what the backend did (a key of Reply, or "RequestException")
    q_outcome,        \* query: "returned", "returned None" or "raised"
    r_pc,             \* run_all_tests: "health", "queries", "returned", "raised" ("off" elsewhere)
    r_health,         \* run_all_tests: "none", "passed", "failed" or "raised"
    r_dispatched,     \* run_all_tests: the query operations called, <<query number, operation>>
    r_last,           \* run_all_tests: the reply to the last query request
    success_count,    \* run_all_tests: line 211
    total_tests,      \* run_all_tests: line 212
    r_request_errors, \* run_all_tests: query requests that ended in a RequestException
    r_with_result,    \* run_all_tests: query operations that returned a non-empty result
    r_result          \* run_all_tests: its return value ("none" until it returns)

ivars == <<vectors_file, index, documents, addCalls, diagnostics, created, pc>>
gvars == <<gen_pc, processed, consumed, encodeCalls, out>>
qvars == <<q_op, q_args, q_request, q_reply, q_outcome>>
rvars == <<r_pc, r_health, r_dispatched, r_last, success_count, total_tests,
           r_request_errors, r_with_result, r_result>>
vars == <<documents_file, BATCH_SIZE, ivars, gvars, qvars, rvars>>

IndexIdle ==
    /\ vectors_file = <<>> /\ index = 0 /\ documents = <<>> /\ addCalls = <<>>
    /\ diagnostics = <<>> /\ created = <<>> /\ pc = "off"

GenerateIdle ==
    /\ gen_pc = "off" /\ processed = 0 /\ consumed = 0 /\ encodeCalls = <<>> /\ out = <<>>

QueryIdle ==
    /\ q_op = "none" /\ q_args = <<>> /\ q_request = <<>> /\ q_reply = "none"
    /\ q_outcome = "none"

RunIdle ==
    /\ r_pc = "off" /\ r_health = "none" /\ r_dispatched = <<>> /\ r_last = "none"
    /\ success_count = 0 /\ total_tests = 0 /\ r_request_errors = 0
    /\ r_with_result = 0 /\ r_result = "none"

\* A pairing that refuses files of different lengths and pairs nothing.
ZipLenStrict ==
    IF Len(documents_file) = Len(vectors_file) THEN Len(documents_file) ELSE 0

\* enumerate(zip(documents_file, vectors_file)) yields this many pairs.
ZipLen == Min(Len(documents_file), Len(vectors_file))

\* Line 35: the comprehension raises ValueError unless every token parses.
Tokens(vector_string) == Split(Strip(vector_string), ",")

Decodes(vector_string) ==
    \A k \in 1..Len(Tokens(vector_string)) : FloatParses(Tokens(vector_string)[k])

VectorOf(vector_string) ==
    [k \in 1..Len(Tokens(vector_string)) |-> Float(Tokens(vector_string)[k])]

\* Entries numbered by their rank among the entries built so far.
MakeDocRenumbered(i, document, vector_string) ==
    [id |-> Str(Len(created)), text |-> Strip(document), vector |-> VectorOf(vector_string)]

\* Lines 38-42.
MakeDoc(i, document, vector_string) ==
    [id |-> Str(i), text |-> Strip(document), vector |-> VectorOf(vector_string)]

\* Line 48.
FlushDue(i) == i % BATCH_SIZE = 0 /\ i # 0

\* A flush that leaves the buffer as it was.
KeptBatch(batch) == batch

\* Line 51: the buffer after an acknowledged mid-run flush.
ClearedBatch(batch) == <<>>

\* A final flush that is not guarded by the buffer being non-empty.
FinalFlushAlways(batch) == TRUE

\* Line 59.
FinalFlushNeeded(batch) == batch # <<>>

\* The entry lines 38-42 build at the current position.
CurrentDoc == MakeDoc(index, documents_file[index + 1], vectors_file[index + 1])

IndexInit ==
    /\ documents_file \in {SubSeq(DocumentStream, 1, n) : n \in 0..MaxDocs}
    /\ vectors_file \in SeqsUpTo(VectorLines, MaxDocs)
    /\ BATCH_SIZE \in 1..MaxBatch
    /\ index = 0
    /\ documents = <<>>
    /\ addCalls = <<>>
    /\ diagnostics = <<>>
    /\ created = <<>>
    /\ pc = "loop"
    /\ GenerateIdle
    /\ QueryIdle
    /\ RunIdle

\* Lines 33-35, 54-56: the vector line does not decode.
IterParseError ==
    /\ pc = "loop" /\ index < ZipLen
    /\ ~Decodes(vectors_file[index + 1])
    /\ diagnostics' = Append(diagnostics, index)
    /\ index' = index + 1
    /\ UNCHANGED <<documents_file, BATCH_SIZE, vectors_file, documents, addCalls,
                   created, pc, gvars, qvars, rvars>>

\* Lines 33-48: the entry is appended and no flush is due.
IterAccumulate ==
    /\ pc = "loop" /\ index < ZipLen
    /\ Decodes(vectors_file[index + 1])
    /\ ~FlushDue(index)
    /\ documents' = Append(documents, CurrentDoc)
    /\ created' = Append(created, CurrentDoc)
    /\ index' = index + 1
    /\ UNCHANGED <<documents_file, BATCH_SIZE, vectors_file, addCalls, diagnostics,
                   pc, gvars, qvars, rvars>>

\* Lines 33-52: the entry is appended, a flush is due and solr.add acknowledges.
IterFlushOk ==
    /\ pc = "loop" /\ index < ZipLen
    /\ Decodes(vectors_file[index + 1])
    /\ FlushDue(index)
    /\ addCalls' = Append(addCalls, [docs |-> Append(documents, CurrentDoc), outcome |-> "ok"])
    /\ documents' = ClearedBatch(Append(documents, CurrentDoc))
    /\ created' = Append(created, CurrentDoc)
    /\ index' = index + 1
    /\ UNCHANGED <<documents_file, BATCH_SIZE, vectors_file, diagnostics, pc, gvars, qvars, rvars>>

\* Lines 50, 54-56: solr.add raises a ValueError inside the try block: the
\* handler of line 54 takes it, line 51 is not reached, the loop continues.
IterFlushValueError ==
    /\ pc = "loop" /\ index < ZipLen
    /\ Decodes(vectors_file[index + 1])
    /\ FlushDue(index)
    /\ addCalls' = Append(addCalls,
                          [docs |-> Append(documents, CurrentDoc), outcome |-> "ValueError"])
    /\ documents' = Append(documents, CurrentDoc)
    /\ created' = Append(created, CurrentDoc)
    /\ diagnostics' = Append(diagnostics, index)
    /\ index' = index + 1
    /\ UNCHANGED <<documents_file, BATCH_SIZE, vectors_file, pc, gvars, qvars, rvars>>

\* Line 50: solr.add raises an exception that is not a ValueError: it leaves
\* index_documents (main, lines 103-107, prints it and exits).
IterFlushFatal ==
    /\ pc = "loop" /\ index < ZipLen
    /\ Decodes(vectors_file[index + 1])
    /\ FlushDue(index)
    /\ addCalls' = Append(addCalls,
                          [docs |-> Append(documents, CurrentDoc), outcome |-> "SolrError"])
    /\ documents' = Append(documents, CurrentDoc)
    /\ created' = Append(created, CurrentDoc)
    /\ pc' = "aborted"
    /\ UNCHANGED <<documents_file, BATCH_SIZE, vectors_file, index, diagnostics,
                   gvars, qvars, rvars>>

\* Lines 59-63: the streams are exhausted and the buffer is empty.
FinishNoFlush ==
    /\ pc = "loop" /\ index >= ZipLen
    /\ ~FinalFlushNeeded(documents)
    /\ pc' = "done"
    /\ UNCHANGED <<documents_file, BATCH_SIZE, vectors_file, index, documents,
                   addCalls, diagnostics, created, gvars, qvars, rvars>>

\* Lines 59-63: the final flush, acknowledged.
FinalFlushOk ==
    /\ pc = "loop" /\ index >= ZipLen
    /\ FinalFlushNeeded(documents)
    /\ addCalls' = Append(addCalls, [docs |-> documents, outcome |-> "ok"])
    /\ pc' = "done"
    /\ UNCHANGED <<documents_file, BATCH_SIZE, vectors_file, index, documents,
                   diagnostics, created, gvars, qvars, rvars>>

\* Line 60 is outside the try block: any exception of solr.add leaves
\* index_documents.
FinalFlushFatal ==
    /\ pc = "loop" /\ index >= ZipLen
    /\ FinalFlushNeeded(documents)
    /\ \E outcome \in AddOutcomes \ {"ok"} :
          addCalls' = Append(addCalls, [docs |-> documents, outcome |-> outcome])
    /\ pc' = "aborted"
    /\ UNCHANGED <<documents_file, BATCH_SIZE, vectors_file, index, documents,
                   diagnostics, created, gvars, qvars, rvars>>

Init == IndexInit

Next ==
    \/ IterParseError
    \/ IterAccumulate
    \/ IterFlushOk
    \/ IterFlushValueError
    \/ IterFlushFatal
    \/ FinishNoFlush
    \/ FinalFlushOk
    \/ FinalFlushFatal

\* Index mode: one run of index_documents on every pair of files and batch size.
Spec == Init /\ [][Next]_vars


\* ------------------------------------------------------ index mode: claims
RECURSIVE Flatten(_)
Flatten(batches) ==
    IF batches = <<>> THEN <<>> ELSE Head(batches) \o Flatten(Tail(batches))

\* Every entry passed to solr.add, in call order.
Sent == Flatten([k \in 1..Len(addCalls) |-> addCalls[k].docs])

NoAddFailed == \A k \in 1..Len(addCalls) : addCalls[k].outcome = "ok"

\* The paired positions whose vector line decodes / does not decode.
Decodable == {i \in 0..(ZipLen - 1) : Decodes(vectors_file[i + 1])}
Malformed == {i \in 0..(ZipLen - 1) : ~Decodes(vectors_file[i + 1])}

\* The entry of paired position i.
EntryAt(i) ==
    [id |-> Str(i), text |-> Strip(documents_file[i + 1]),
     vector |-> VectorOf(vectors_file[i + 1])]

\* The entries of the decodable positions below n, in increasing ordinal order.
RECURSIVE ExpectedEntries(_)
ExpectedEntries(n) ==
    IF n = 0 THEN <<>>
    ELSE IF (n - 1) \in Decodable THEN Append(ExpectedEntries(n - 1), EntryAt(n - 1))
    ELSE ExpectedEntries(n - 1)

Occurrences(seq, x) == Cardinality({k \in 1..Len(seq) : seq[k] = x})

\* C1: every list passed to solr.add holds at most BATCH_SIZE entries.
C1_BatchAtMostBatchSize ==
    \A k \in 1..Len(addCalls) : Len(addCalls[k].docs) <= BATCH_SIZE

\* C2: when a run completes and no add failed, the lists passed to add,
\* concatenated in call order, are exactly the entries of the decodable paired
\* positions in increasing ordinal order, each once, whatever BATCH_SIZE is.
C2_AllEntriesSentOnce ==
    (pc = "done" /\ NoAddFailed) => Sent = ExpectedEntries(ZipLen)

\* C2 witness: a completed run without failure that skipped a record, flushed
\* mid-run and flushed a non-empty final batch.
C2_Witness ==
    /\ pc = "done" /\ NoAddFailed
    /\ Len(addCalls) >= 2
    /\ documents # <<>>
    /\ Malformed # {}

\* C3: a malformed vector line skips exactly its record, with one diagnostic
\* carrying its ordinal; the run goes on, every other paired position yields
\* one entry whose id is the string of its original position, so entries plus
\* skipped records are the paired positions.
C3_MalformedSkipped ==
    /\ \A i \in 0..(index - 1) :
          IF i \in Malformed
          THEN /\ Occurrences(diagnostics, i) = 1
               /\ \A k \in 1..Len(created) : created[k].id # Str(i)
          ELSE /\ Occurrences(created, EntryAt(i)) = 1
               /\ Cardinality({k \in 1..Len(created) : created[k].id = Str(i)}) = 1
    /\ \A i \in Malformed : i >= index => Occurrences(diagnostics, i) = 0
    /\ pc = "done" =>
          /\ index = ZipLen
          /\ Len(created) + Cardinality(Malformed) = ZipLen
    /\ pc = "aborted" => addCalls # <<>> /\ addCalls[Len(addCalls)].outcome # "ok"

\* C3 witness: a completed run in which a malformed line was followed by a
\* decodable one.
C3_Witness ==
    /\ pc = "done"
    /\ \E i \in Malformed : \E j \in Decodable : i < j
    /\ created # <<>>

\* C4: a failed add is fatal: once an add has failed the run is aborted.
C4_AddFailureIsFatal ==
    (\E k \in 1..Len(addCalls) : addCalls[k].outcome # "ok") => pc = "aborted"

\* C5: with files of different lengths exactly min(len(documents),
\* len(vectors)) positions are paired and processed, the tail of the longer
\* file yields no entry, and the mismatch raises no error.
C5_TruncatedPairing ==
    Len(documents_file) # Len(vectors_file) =>
        /\ index <= Min(Len(documents_file), Len(vectors_file))
        /\ \A k \in 1..Len(created) :
              \E i \in Decodable :
                  /\ i < Min(Len(documents_file), Len(vectors_file))
                  /\ created[k] = EntryAt(i)
        /\ \A k \in 1..Len(diagnostics) :
              diagnostics[k] < Min(Len(documents_file), Len(vectors_file))
        /\ pc = "done" =>
              /\ index = Min(Len(documents_file), Len(vectors_file))
              /\ \A i \in 0..(Min(Len(documents_file), Len(vectors_file)) - 1) :
                    \/ \E k \in 1..Len(created) : created[k].id = Str(i)
                    \/ \E k \in 1..Len(diagnostics) : diagnostics[k] = i
        /\ pc = "aborted" => addCalls # <<>> /\ addCalls[Len(addCalls)].outcome # "ok"

\* C5 witness: a completed run whose document file is longer than its vector
\* file, with entries built.
C5_Witness ==
    /\ pc = "done"
    /\ Len(documents_file) > Len(vectors_file)
    /\ Len(vectors_file) >= 2
    /\ created # <<>>

\* C6: solr.add is never passed an empty list; a run with no paired position,
\* or with every vector line malformed, completes without any add call.
C6_NoEmptyAdd ==
    /\ \A k \in 1..Len(addCalls) : addCalls[k].docs # <<>>
    /\ (pc # "loop" /\ Decodable = {}) => (pc = "done" /\ addCalls = <<>>)

\* C6 witness: a completed run over several positions, all malformed.
C6_Witness ==
    /\ pc = "done"
    /\ ZipLen >= 2
    /\ Decodable = {}
    /\ addCalls = <<>>

\* C9: every entry passed to solr.add has a vector of the embedder's dimension.
C9_SentVectorsHaveDimension ==
    \A k \in 1..Len(Sent) : Len(Sent[k].vector) = Dimension

\* C11: a flush before the input is exhausted happens exactly when the buffer
\* has reached BATCH_SIZE entries and leaves the buffer empty: an iteration
\* that calls solr.add passes exactly BATCH_SIZE entries and, when add
\* acknowledges, ends with an empty buffer; an iteration that does not call
\* it ends with fewer than BATCH_SIZE entries in the buffer.
C11_MidRunFlushAtBatchSize ==
    [][ (pc = "loop" /\ index < ZipLen) =>
           IF addCalls' # addCalls
           THEN /\ Len(addCalls'[Len(addCalls')].docs) = BATCH_SIZE
                /\ addCalls'[Len(addCalls')].outcome = "ok" => documents' = <<>>
           ELSE Len(documents') < BATCH_SIZE ]_vars


\* ----------------------------------------------------------- generate mode
\* The lines a document file of a generate run is made of.
DocLines == { <<"a", NL>>, <<"b", "c", NL>> }

\* The embedder (model.encode): one vector of Dimension floats per text, in
\* input order; the vector is a fixed function of the text.
EmbedOne(text) ==
    [k \in 1..Dimension |->
        [whole |-> Len(text) + k - 1, frac |-> IF k % 2 = 0 THEN <<"5">> ELSE <<>>]]

\* encode(model, documents), lines 55-59.
Encode(n_lines) == [k \in 1..Len(n_lines) |-> EmbedOne(n_lines[k])]

\* A read that takes one line more than BATCH_SIZE.
ReadBatchOneMore ==
    SubSeq(documents_file, consumed + 1,
           Min(consumed + BATCH_SIZE + 1, Len(documents_file)))

\* Line 42: islice(documents_file, BATCH_SIZE) at the current file position.
ReadBatch ==
    SubSeq(documents_file, consumed + 1, Min(consumed + BATCH_SIZE, Len(documents_file)))

\* Line 52: ','.join([str(i) for i in v]).
VectorLine(v) == Join(<<",">>, [k \in 1..Len(v) |-> StrFloat(v[k])])

\* The vectors of a batch written last first.
RECURSIVE WriteVectorsReversed(_)
WriteVectorsReversed(vectors) ==
    IF vectors = <<>> THEN <<>>
    ELSE WriteVectorsReversed(Tail(vectors)) \o VectorLine(Head(vectors)) \o <<NL>>

\* Lines 51-53: what the loop over the vectors of a batch writes.
RECURSIVE WriteVectors(_)
WriteVectors(vectors) ==
    IF vectors = <<>> THEN <<>>
    ELSE VectorLine(Head(vectors)) \o <<NL>> \o WriteVectors(Tail(vectors))

GenerateInit ==
    /\ documents_file \in SeqsUpTo(DocLines, MaxDocs)
    /\ BATCH_SIZE \in 1..MaxBatch
    /\ gen_pc = "loop"
    /\ processed = 0
    /\ consumed = 0
    /\ encodeCalls = <<>>
    /\ out = <<>>
    /\ IndexIdle
    /\ QueryIdle
    /\ RunIdle

\* Lines 42-53: one iteration, for a non-empty tuple of lines.
GenBatch ==
    /\ gen_pc = "loop"
    /\ ReadBatch # <<>>
    /\ processed' = processed + 1
    /\ encodeCalls' = Append(encodeCalls, ReadBatch)
    /\ out' = out \o WriteVectors(Encode(ReadBatch))
    /\ consumed' = consumed + Len(ReadBatch)
    /\ UNCHANGED <<documents_file, BATCH_SIZE, gen_pc, ivars, qvars, rvars>>

\* Line 42: islice gives the sentinel (), the loop ends.
GenEnd ==
    /\ gen_pc = "loop"
    /\ ReadBatch = <<>>
    /\ gen_pc' = "done"
    /\ UNCHANGED <<documents_file, BATCH_SIZE, processed, consumed, encodeCalls, out,
                   ivars, qvars, rvars>>

GenerateNext ==
    \/ GenBatch
    \/ GenEnd

\* Generate mode: one run of batch_encode_to_vectors on every file and batch size.
SpecGenerate == GenerateInit /\ [][GenerateNext]_vars

\* The lines of the output file: the pieces before each newline.
OutLines == IF out = <<>> THEN <<>> ELSE SubSeq(Split(out, NL), 1, Len(Split(out, NL)) - 1)

\* C7: the output file has one line per document read, line i is the encoding
\* of the vector of document i and decodes to it; at the end of the run every
\* document has been read.
C7_OutputAlignedWithInput ==
    /\ out # <<>> => out[Len(out)] = NL
    /\ Len(OutLines) = consumed
    /\ \A i \in 1..Len(OutLines) :
          /\ OutLines[i] = VectorLine(EmbedOne(documents_file[i]))
          /\ Decodes(OutLines[i])
          /\ VectorOf(OutLines[i]) = EmbedOne(documents_file[i])
    /\ gen_pc = "done" => consumed = Len(documents_file)

\* C7 witness: a completed run of several batches, the last one partial, over
\* documents that differ.
C7_Witness ==
    /\ gen_pc = "done"
    /\ processed >= 2
    /\ Len(documents_file) % BATCH_SIZE # 0
    /\ \E i, j \in 1..Len(documents_file) : documents_file[i] # documents_file[j]

\* C12: model.encode is called once per batch, ceil(N / BATCH_SIZE) times for
\* N input lines; the calls receive consecutive documents, each between 1 and
\* BATCH_SIZE of them and all but the last exactly BATCH_SIZE, never none;
\* for N = 0 there is no call and the output is empty.
C12_OneEncodeCallPerBatch ==
    /\ Len(encodeCalls) = processed
    /\ Flatten(encodeCalls) = SubSeq(documents_file, 1, consumed)
    /\ \A k \in 1..Len(encodeCalls) :
          /\ Len(encodeCalls[k]) >= 1
          /\ Len(encodeCalls[k]) <= BATCH_SIZE
          /\ k < Len(encodeCalls) => Len(encodeCalls[k]) = BATCH_SIZE
    /\ gen_pc = "done" =>
          /\ consumed = Len(documents_file)
          /\ Len(encodeCalls) = (Len(documents_file) + BATCH_SIZE - 1) \div BATCH_SIZE
          /\ Len(documents_file) = 0 => (encodeCalls = <<>> /\ out = <<>>)

\* C12 witness: a completed run of three lines in batches of two: two calls,
\* the last with one document.
C12_Witness ==
    /\ gen_pc = "done"
    /\ BATCH_SIZE = 2
    /\ Len(documents_file) = 3
    /\ Len(encodeCalls) = 2
    /\ Len(encodeCalls[2]) = 1


\* -------------------------------------------------------- query operations
KnnOpen == <<"{", "!", "k", "n", "n", " ", "f", "=", "v", "e", "c", "t", "o", "r", " ", "t", "o", "p", "K", "=">>
IdOpen == <<"i", "d", ":", "(">>
EdismaxOpen == <<"{", "!", "t", "y", "p", "e", "=", "e", "d", "i", "s", "m", "a", "x", " ", "q", "f", "=">>
EdismaxV == <<" ", "v", "=", "'">>
EdismaxClose == <<"'", "}">>
RerankOpen == <<"{", "!", "r", "e", "r", "a", "n", "k", " ", "r", "e", "R", "a", "n", "k", "Q", "u", "e", "r", "y", "=", "$", "r", "q", "q", " ", "r", "e", "R", "a", "n", "k", "D", "o", "c", "s", "=">>
RerankWeightKey == <<" ", "r", "e", "R", "a", "n", "k", "W", "e", "i", "g", "h", "t", "=">>
FieldList == <<"i", "d", ",", "t", "e", "x", "t", ",", "s", "c", "o", "r", "e">>
SelectEndpoint == <<"/", "s", "e", "l", "e", "c", "t", "?", "f", "l", "=", "i", "d", ",", "t", "e", "x", "t", ",", "s", "c", "o", "r", "e">>
SelectPath == <<"/", "s", "e", "l", "e", "c", "t">>
DefaultInitialQuery == <<"i", "d", ":", "(", "0", " ", "1", " ", "2", " ", "3", " ", "4", ")">>
DefaultLexicalField == <<"t", "e", "x", "t">>
DefaultLexicalQuery == <<"b", "a", "n", "k">>

\* The query texts and the ids a filter list is made of.
Queries == { <<"b", "a", "n", "k">>, <<"t", "a", "x", " ", "i", "d">> }
IdStrings == { <<"0">>, <<"1">>, <<"1", "2">> }

\* vectorize_query, lines 23-26.
VectorizeQuery(query) == Encode(<<query>>)[1]

\* str(list of floats): "[1.0, 2.5]".
StrList(vector) ==
    <<"[">> \o Join(<<",", SP>>, [k \in 1..Len(vector) |-> StrFloat(vector[k])]) \o <<"]">>

\* Lines 57, 85, 117: f"{{!knn f=vector topK={top_k}}}{vector}".
KnnClause(top_k, vector) == KnnOpen \o Str(top_k) \o <<"}">> \o StrList(vector)

RECURSIVE Reverse(_)
Reverse(seq) == IF seq = <<>> THEN <<>> ELSE Append(Reverse(Tail(seq)), Head(seq))

\* A filter that lists the ids last first.
FilterQueryReversed(filter_ids) == IdOpen \o Join(<<SP>>, Reverse(filter_ids)) \o <<")">>

\* Line 83: f"id:({' '.join(filter_ids)})".
FilterQuery(filter_ids) == IdOpen \o Join(<<SP>>, filter_ids) \o <<")">>

\* Lines 56-58.
BasicKnnData(query, top_k) == [query |-> KnnClause(top_k, VectorizeQuery(query))]

\* Lines 84-87.
PrefilterData(query, filter_ids, top_k) ==
    [query |-> KnnClause(top_k, VectorizeQuery(query)), filter |-> FilterQuery(filter_ids)]

\* Lines 112-121.
HybridData(query, lexical_field, lexical_query, top_k) ==
    [query |->
        [bool |->
            [should |->
                << EdismaxOpen \o lexical_field \o EdismaxV \o lexical_query \o EdismaxClose,
                   KnnClause(top_k, VectorizeQuery(query)) >>]]]

\* Lines 147-152.
RerankParams(initial_query, rerank_query, rerank_docs, rerank_weight) ==
    [q   |-> initial_query,
     fl  |-> FieldList,
     rq  |-> RerankOpen \o Str(rerank_docs) \o RerankWeightKey \o Str(rerank_weight) \o <<"}">>,
     rqq |-> KnnClause(rerank_docs, VectorizeQuery(rerank_query))]

\* What the backend can answer with a 2xx status: the JSON documents below.
\* "RequestException" stands for a connection error, a timeout or an HTTP
\* error status (raise_for_status).
JsonReplies ==
    {"ok", "okNoDocs", "emptyObject", "noResponse", "noNumFound", "noDocs",
     "docNoId", "docNoText", "docNoScore"}

Replies == JsonReplies \cup {"RequestException"}

Score == [whole |-> 0, frac |-> <<"9">>]

\* response.json() of each reply.
Json(reply) ==
    CASE reply = "ok" ->
            [response |-> [numFound |-> 1,
                           docs |-> <<[id |-> <<"0">>, text |-> <<"a">>, score |-> Score]>>]]
      [] reply = "okNoDocs" -> [response |-> [numFound |-> 0, docs |-> <<>>]]
      [] reply = "emptyObject" -> <<>>
      [] reply = "noResponse" -> [responseHeader |-> [status |-> 0]]
      [] reply = "noNumFound" -> [response |-> [docs |-> <<>>]]
      [] reply = "noDocs" -> [response |-> [numFound |-> 0]]
      [] reply = "docNoId" ->
            [response |-> [numFound |-> 1, docs |-> <<[text |-> <<"a">>, score |-> Score]>>]]
      [] reply = "docNoText" ->
            [response |-> [numFound |-> 1, docs |-> <<[id |-> <<"0">>, score |-> Score]>>]]
      [] reply = "docNoScore" ->
            [response |-> [numFound |-> 1, docs |-> <<[id |-> <<"0">>, text |-> <<"a">>]>>]]

\* Python's truth value of a dict: false when it is empty.
Truthy(result) == DOMAIN result # {}

\* Lines 64-67 (and 93-96, 127-130, 165-168): a subscript with a missing key
\* raises KeyError.
PrintRaises(result) ==
    \/ "response" \notin DOMAIN result
    \/ "numFound" \notin DOMAIN result.response
    \/ "docs" \notin DOMAIN result.response
    \/ \E k \in 1..Len(result.response.docs) :
          {"id", "score", "text"} \ DOMAIN result.response.docs[k] # {}

\* make_request (lines 28-44) followed by lines 63-69; test_reranking_query
\* does the same with its own try block (lines 155-170).
Outcome(reply) ==
    IF reply = "RequestException"
    THEN [status |-> "returned", value |-> "None", reported |-> TRUE]
    ELSE IF Truthy(Json(reply)) /\ PrintRaises(Json(reply))
    THEN [status |-> "raised", value |-> "KeyError", reported |-> FALSE]
    ELSE [status |-> "returned", value |-> reply, reported |-> FALSE]

QueryInit ==
    /\ documents_file = <<>>
    /\ BATCH_SIZE = 1
    /\ IndexIdle
    /\ GenerateIdle
    /\ QueryIdle
    /\ RunIdle

\* test_basic_knn_query, lines 46-69.
TestBasicKnnQuery ==
    \E query \in Queries, top_k \in 1..MaxTopK, reply \in Replies :
        /\ q_op = "none"
        /\ q_op' = "knn"
        /\ q_args' = [query |-> query, top_k |-> top_k, filter_ids |-> <<>>]
        /\ q_request' = [method |-> "POST", endpoint |-> SelectEndpoint,
                         data |-> BasicKnnData(query, top_k)]
        /\ q_reply' = reply
        /\ q_outcome' = Outcome(reply)
        /\ UNCHANGED <<documents_file, BATCH_SIZE, ivars, gvars, rvars>>

\* test_knn_with_prefiltering, lines 71-98.
TestKnnWithPrefiltering ==
    \E query \in Queries, top_k \in 1..MaxTopK, reply \in Replies,
       filter_ids \in SeqsUpTo(IdStrings, MaxIds) :
        /\ q_op = "none"
        /\ q_op' = "filter"
        /\ q_args' = [query |-> query, top_k |-> top_k, filter_ids |-> filter_ids]
        /\ q_request' = [method |-> "POST", endpoint |-> SelectEndpoint,
                         data |-> PrefilterData(query, filter_ids, top_k)]
        /\ q_reply' = reply
        /\ q_outcome' = Outcome(reply)
        /\ UNCHANGED <<documents_file, BATCH_SIZE, ivars, gvars, rvars>>

\* test_hybrid_search, lines 100-132, with the default lexical field and query.
TestHybridSearch ==
    \E query \in Queries, top_k \in 1..MaxTopK, reply \in Replies :
        /\ q_op = "none"
        /\ q_op' = "hybrid"
        /\ q_args' = [query |-> query, top_k |-> top_k, filter_ids |-> <<>>]
        /\ q_request' = [method |-> "POST", endpoint |-> SelectEndpoint,
                         data |-> HybridData(query, DefaultLexicalField,
                                             DefaultLexicalQuery, top_k)]
        /\ q_reply' = reply
        /\ q_outcome' = Outcome(reply)
        /\ UNCHANGED <<documents_file, BATCH_SIZE, ivars, gvars, rvars>>

\* test_reranking_query, lines 134-170, with the default initial query and
\* weight; top_k holds rerank_docs.
TestRerankingQuery ==
    \E query \in Queries, rerank_docs \in 1..MaxTopK, reply \in Replies :
        /\ q_op = "none"
        /\ q_op' = "rerank"
        /\ q_args' = [query |-> query, top_k |-> rerank_docs, filter_ids |-> <<>>]
        /\ q_request' = [method |-> "GET", endpoint |-> SelectPath,
                         data |-> RerankParams(DefaultInitialQuery, query, rerank_docs, 1)]
        /\ q_reply' = reply
        /\ q_outcome' = Outcome(reply)
        /\ UNCHANGED <<documents_file, BATCH_SIZE, ivars, gvars, rvars>>

QueryNext ==
    \/ TestBasicKnnQuery
    \/ TestKnnWithPrefiltering
    \/ TestHybridSearch
    \/ TestRerankingQuery

\* Query operations: one call (main, lines 272-286, runs one operation per
\* command), with any arguments and any reply.
SpecQuery == QueryInit /\ [][QueryNext]_vars

\* The replies that lack a field the operations read.
MalformedReplies ==
    {"emptyObject", "noResponse", "noNumFound", "noDocs", "docNoId", "docNoText", "docNoScore"}

\* C8: on a reply with missing fields each of the four operations returns an
\* empty result with a reported error and never raises.
C8_MalformedReplyDegrades ==
    (q_op # "none" /\ q_reply \in MalformedReplies) =>
        /\ q_outcome.status = "returned"
        /\ q_outcome.value = "None"
        /\ q_outcome.reported

\* C10: the filtered-KNN payload has exactly the keys query and filter; the
\* filter is "id:(" + the ids separated by single spaces in input order + ")";
\* the query is one KNN clause on field vector with the call's topK followed
\* by the literal of the query vector.
C10_FilteredKnnPayload ==
    q_op = "filter" =>
        LET filter == q_request.data.filter
            query  == q_request.data.query
            ids    == q_args.filter_ids
            close  == CHOOSE k \in 1..Len(query) :
                          query[k] = "}" /\ \A j \in 1..(k - 1) : query[j] # "}"
            topK   == SubSeq(query, Len(KnnOpen) + 1, close - 1)
            list   == SubSeq(query, close + 1, Len(query))
        IN  /\ DOMAIN q_request.data = {"query", "filter"}
            /\ Len(filter) >= Len(IdOpen) + 1
            /\ SubSeq(filter, 1, Len(IdOpen)) = IdOpen
            /\ filter[Len(filter)] = ")"
            /\ ids # <<>> =>
                  Split(SubSeq(filter, Len(IdOpen) + 1, Len(filter) - 1), SP) = ids
            /\ SubSeq(query, 1, Len(KnnOpen)) = KnnOpen
            /\ topK # <<>> /\ AllDigits(topK) /\ IntValue(topK) = q_args.top_k
            /\ list[1] = "[" /\ list[Len(list)] = "]"
            /\ VectorOf(SubSeq(list, 2, Len(list) - 1)) = VectorizeQuery(q_args.query)

\* C10 witness: a filtered KNN call with two different ids and topK = 3.
C10_Witness ==
    /\ q_op = "filter"
    /\ q_args.top_k = 3
    /\ Len(q_args.filter_ids) = 2
    /\ q_args.filter_ids[1] # q_args.filter_ids[2]


\* ----------------------------------------------------------- run_all_tests
\* Lines 205-209.
TestQueries ==
    << "what is a bank transit number",
       "financial institution information",
       "federal tax identification" >>

\* Lines 219-237: the operations run for each query, in this order.
Operations == <<"knn", "filter", "hybrid", "rerank">>

\* make_request gives a value that is true in an `if` (lines 178, 186).
RequestTruthy(reply) == reply # "RequestException" /\ Truthy(Json(reply))

\* Line 187: stats_result['response']['numFound'] raises KeyError.
StatsRaises(reply) ==
    \/ "response" \notin DOMAIN Json(reply)
    \/ "numFound" \notin DOMAIN Json(reply).response

\* test_solr_health, lines 172-193, for the replies to its two requests.
Health(ping, stats) ==
    IF ~RequestTruthy(ping) THEN "failed"
    ELSE IF ~RequestTruthy(stats) THEN "failed"
    ELSE IF StatsRaises(stats) THEN "raised"
    ELSE "passed"

\* Lines 221, 226, 231, 236: the truth value of what the operation returned.
ReturnedTruthy(outcome) ==
    /\ outcome.status = "returned"
    /\ outcome.value # "None"
    /\ Truthy(Json(outcome.value))

\* A summary that is satisfied with one successful operation.
SomePassed == success_count > 0

\* Line 247.
AllPassed == success_count = total_tests

\* The call the loop of lines 214-237 makes next.
NextCall ==
    << TestQueries[(Len(r_dispatched) \div Len(Operations)) + 1],
       Operations[(Len(r_dispatched) % Len(Operations)) + 1] >>

RunInit ==
    /\ documents_file = <<>>
    /\ BATCH_SIZE = 1
    /\ IndexIdle
    /\ GenerateIdle
    /\ QueryIdle
    /\ r_pc = "health"
    /\ r_health = "none"
    /\ r_dispatched = <<>>
    /\ r_last = "none"
    /\ success_count = 0
    /\ total_tests = 0
    /\ r_request_errors = 0
    /\ r_with_result = 0
    /\ r_result = "none"

\* Lines 199-202: the health check fails, run_all_tests returns False.
RunHealthFails ==
    /\ r_pc = "health"
    /\ \E ping \in Replies, stats \in Replies : Health(ping, stats) = "failed"
    /\ r_health' = "failed"
    /\ r_result' = "false"
    /\ r_pc' = "returned"
    /\ UNCHANGED <<documents_file, BATCH_SIZE, ivars, gvars, qvars, r_dispatched, r_last,
                   success_count, total_tests, r_request_errors, r_with_result>>

\* Lines 199-200, 187: the statistics reply lacks a field, KeyError leaves
\* run_all_tests.
RunHealthRaises ==
    /\ r_pc = "health"
    /\ \E ping \in Replies, stats \in Replies : Health(ping, stats) = "raised"
    /\ r_health' = "raised"
    /\ r_pc' = "raised"
    /\ UNCHANGED <<documents_file, BATCH_SIZE, ivars, gvars, qvars, r_dispatched, r_last,
                   success_count, total_tests, r_request_errors, r_with_result, r_result>>

\* Lines 199-212: the health check passes.
RunHealthPasses ==
    /\ r_pc = "health"
    /\ \E ping \in Replies, stats \in Replies : Health(ping, stats) = "passed"
    /\ r_health' = "passed"
    /\ r_pc' = "queries"
    /\ UNCHANGED <<documents_file, BATCH_SIZE, ivars, gvars, qvars, r_dispatched, r_last,
                   success_count, total_tests, r_request_errors, r_with_result, r_result>>

\* Lines 219-237: one query operation is called and returns.
RunOperationReturns ==
    /\ r_pc = "queries"
    /\ Len(r_dispatched) < Len(TestQueries) * Len(Operations)
    /\ \E reply \in Replies :
          /\ Outcome(reply).status = "returned"
          /\ r_last' = reply
          /\ success_count' =
                IF ReturnedTruthy(Outcome(reply)) THEN success_count + 1 ELSE success_count
          /\ r_request_errors' =
                IF reply = "RequestException" THEN r_request_errors + 1 ELSE r_request_errors
          /\ r_with_result' =
                IF reply \in JsonReplies \ MalformedReplies
                THEN r_with_result + 1 ELSE r_with_result
    /\ r_dispatched' = Append(r_dispatched, NextCall)
    /\ total_tests' = total_tests + 1
    /\ UNCHANGED <<documents_file, BATCH_SIZE, ivars, gvars, qvars, r_pc, r_health, r_result>>

\* Lines 219-237: one query operation is called and raises (lines 64-67 and
\* their copies): the exception leaves run_all_tests.
RunOperationRaises ==
    /\ r_pc = "queries"
    /\ Len(r_dispatched) < Len(TestQueries) * Len(Operations)
    /\ \E reply \in Replies :
          /\ Outcome(reply).status = "raised"
          /\ r_last' = reply
    /\ r_dispatched' = Append(r_dispatched, NextCall)
    /\ total_tests' = total_tests + 1
    /\ r_pc' = "raised"
    /\ UNCHANGED <<documents_file, BATCH_SIZE, ivars, gvars, qvars, r_health,
                   success_count, r_request_errors, r_with_result, r_result>>

\* Lines 239-247: the summary and the return value.
RunSummary ==
    /\ r_pc = "queries"
    /\ Len(r_dispatched) = Len(TestQueries) * Len(Operations)
    /\ r_result' = IF AllPassed THEN "true" ELSE "false"
    /\ r_pc' = "returned"
    /\ UNCHANGED <<documents_file, BATCH_SIZE, ivars, gvars, qvars, r_health, r_dispatched,
                   r_last, success_count, total_tests, r_request_errors, r_with_result>>

RunNext ==
    \/ RunHealthFails
    \/ RunHealthRaises
    \/ RunHealthPasses
    \/ RunOperationReturns
    \/ RunOperationRaises
    \/ RunSummary

\* run_all_tests: one run, with any reply to every request.
SpecRunAll == RunInit /\ [][RunNext]_vars

\* The twelve calls of a full run: for each query, the four operations.
ExpectedCalls ==
    Flatten([q \in 1..3 |->
                << <<TestQueries[q], "knn">>, <<TestQueries[q], "filter">>,
                   <<TestQueries[q], "hybrid">>, <<TestQueries[q], "rerank">> >>])

\* C13: a query request that ends in a connection error or timeout makes its
\* operation count as failed and does not stop the run: the operations are
\* dispatched in order, 4 for each of the 3 queries, the run ends early only
\* when an operation raises on a reply with missing fields, a run that
\* returns after a passed health check has dispatched all 12 and returns true
\* exactly when all 12 returned a result; after a failed health check no
\* operation is dispatched.
C13_RequestErrorsAreRecoverable ==
    /\ r_health \in {"failed", "raised"} => r_dispatched = <<>>
    /\ (r_health = "failed" /\ r_pc = "returned") => r_result = "false"
    /\ Len(r_dispatched) <= 12
    /\ r_dispatched = SubSeq(ExpectedCalls, 1, Len(r_dispatched))
    /\ total_tests = Len(r_dispatched)
    /\ total_tests - success_count >= r_request_errors
    /\ r_last = "RequestException" => r_pc # "raised"
    /\ (r_pc = "raised" /\ r_health = "passed") => r_last \in MalformedReplies
    /\ (r_pc = "returned" /\ r_health = "passed") =>
          /\ Len(r_dispatched) = 12
          /\ r_result = "true" <=> r_with_result = 12

\* C13 witness: a run that passed the health check, met a request error and
\* a successful operation, dispatched all twelve and returned false.
C13_Witness ==
    /\ r_pc = "returned"
    /\ r_health = "passed"
    /\ r_request_errors >= 1
    /\ r_with_result >= 1
    /\ Len(r_dispatched) = 12
    /\ r_result = "false"

====
